---- MODULE Spec2Model ----
(***************************************************************************)
(* A model of the demo-predict pipeline of arise-predictions               *)
(* (src/src/perform_predict/predict.py) and of the configuration file the  *)
(* UI writes for it (src/ui/tools/generate_files.py,                       *)
(* src/ui/ui/predict_ui.py).                                               *)
(*                                                                         *)
(* The pure functions of predict.py are operators; each has a small        *)
(* specification that draws its inputs in Init and applies it in one       *)
(* action.  SpecRun is the state machine of demo_predict over a file       *)
(* system.  All specifications share the variables below; a specification  *)
(* leaves the variables of the others at their idle values.                *)
(***************************************************************************)
EXTENDS Integers, Sequences, FiniteSets, TLC

VARIABLES
    \* _get_highest_ranked_estimator
    ranking_file,      \* the ranking CSV: [exists, rows]
    target_variable,   \* the requested target
    resolved,          \* what the call did
    \* _get_data_range_missing_values
    hist_column,       \* original_data[var_name], a column of integers
    missing_values,    \* what the call returned
    \* _rank_predictions
    pred_column,       \* data[target_column]
    greater_is_better,
    rank_column,       \* the inserted rank_<target> column
    \* _create_input_space
    input_config,      \* the parsed YAML configuration
    original_data,     \* the historical data: None, or a table
    input_space,       \* what the call did: the table, or that it raised
    \* demo_predict and _run_predictions
    pc,                \* where the run is
    raised_in,         \* the step of the run that raised, "" for none
    runs,              \* runs started so far
    estimators,        \* config["estimators"]
    estimator_zip,     \* zipfile.is_zipfile(estimator_path)
    sibling_dir,       \* the directory at the archive path without extension
    output_dir,        \* the files under output_path: a set of [name, table]
    target_variables,  \* the targets the loop has taken up
    all_predictions_df,\* the consolidated table
    joined,            \* this run: the names of the files read for the join
    written,           \* this run: the names of the files written, in order
    reads,             \* this run: where each estimator was read from
    completed,         \* runs that have returned from demo_predict
    sibling_before,    \* this run: sibling_dir as the run found it
    \* the UI: PredictUI.on_predict
    session_state,     \* st.session_state: the form's widgets
    ui_result,         \* how on_predict went
    config_file,       \* the prediction configuration file
    core_result        \* what the loop of _run_predictions made of the file

varsResolver == <<ranking_file, target_variable, resolved>>
varsInterp == <<hist_column, missing_values>>
varsRank == <<pred_column, greater_is_better, rank_column>>

varsInput == <<input_config, original_data, input_space>>

varsRun == <<pc, raised_in, runs, estimators, estimator_zip, sibling_dir, output_dir,
             target_variables, all_predictions_df, joined, written, reads,
             completed, sibling_before>>

varsUI == <<session_state, ui_result, config_file, core_result>>

vars == <<varsResolver, varsInterp, varsRank, varsInput, varsRun, varsUI>>

\* What each small specification leaves alone.
exceptResolver == <<varsInterp, varsRank, varsInput, varsRun, varsUI>>
exceptInterp == <<varsResolver, varsRank, varsInput, varsRun, varsUI>>
exceptRank == <<varsResolver, varsInterp, varsInput, varsRun, varsUI>>
exceptInput == <<varsResolver, varsInterp, varsRank, varsRun, varsUI>>
exceptRun == <<varsResolver, varsInterp, varsRank, varsUI>>
exceptUI == <<varsResolver, varsInterp, varsRank, varsInput, varsRun>>

-----------------------------------------------------------------------------
(* Bounds of the model. *)

MaxRankRows == 3     \* rows of the ranking file
MaxRankValue == 2    \* largest value of a rank column of the ranking file
MaxColumn == 3       \* rows of a historical or prediction column
MaxValue == 4        \* largest value in a historical or prediction column
MaxVariable == 2     \* entries of variable_values
MaxInterp == 2       \* entries of interpolation_values
MaxFixed == 1        \* entries of fixed_values
MaxListLen == 2      \* length of a variable value list
MaxDataRows == 2     \* rows of the historical data
MaxTargets == 2      \* entries of the estimators list of a run
MaxRuns == 2         \* runs into the same output directory
MaxSlider == 2       \* largest value of the numeric slider of the form

-----------------------------------------------------------------------------
(* Helpers on sequences. *)

Range(s) == {s[i] : i \in 1..Len(s)}

SeqsUpTo(S, n) == UNION {[1..k -> S] : k \in 0..n}

SetMin(S) == CHOOSE x \in S : \A y \in S : x <= y

SetMax(S) == CHOOSE x \in S : \A y \in S : x >= y

\* The increasing sequence lo, lo+1, ..., hi-1: Python's range(lo, hi).
PyRange(lo, hi) == [k \in 1..(IF hi > lo THEN hi - lo ELSE 0) |-> lo + k - 1]

-----------------------------------------------------------------------------
(* _get_data_range_missing_values *)

\* The same without the test against the column: every value of the range.
GetDataRangeAllValues(column) ==
    PyRange(SetMin(Range(column)) + 1, SetMax(Range(column)))

\* range(min + 1, max), keeping the values that are not in the column.
GetDataRangeMissingValues(column) ==
    LET values == PyRange(SetMin(Range(column)) + 1, SetMax(Range(column)))
        NotInColumn(val) == val \notin Range(column)
    IN  SelectSeq(values, NotInColumn)

NoColumn == <<>>
NotCalled == <<-1>>

InitInterp ==
    /\ hist_column \in SeqsUpTo(0..MaxValue, MaxColumn) \ {<<>>}
    /\ missing_values = NotCalled

IdleInterp ==
    /\ hist_column = NoColumn
    /\ missing_values = NotCalled

CallGetDataRangeMissingValues ==
    /\ missing_values = NotCalled
    /\ missing_values' = GetDataRangeMissingValues(hist_column)
    /\ UNCHANGED <<hist_column, exceptInterp>>

-----------------------------------------------------------------------------
(* _rank_predictions *)

\* pandas Series.rank(ascending=...), method "average": a value's rank is the
\* mean of the positions its ties take in the sorted order.  Ranks are halves
\* of integers; Rank2 is twice the rank (rank 1 is 2, rank 1.5 is 3).
Rank2(column, ascending) ==
    [i \in 1..Len(column) |->
        LET before == Cardinality({j \in 1..Len(column) :
                          IF ascending THEN column[j] < column[i]
                                       ELSE column[j] > column[i]})
            ties == Cardinality({j \in 1..Len(column) : column[j] = column[i]})
        IN  2 * before + ties + 1]

\* The same with the flag passed on as it is: ascending = greater_is_better.
RankPredictionsFlagNotNegated(column, greater) == Rank2(column, greater)

\* value = data[target_column].rank(ascending = not greater_is_better)
RankPredictions(column, greater) == Rank2(column, ~greater)

InitRank ==
    /\ pred_column \in SeqsUpTo(1..MaxValue, MaxColumn)
    /\ greater_is_better \in BOOLEAN
    /\ rank_column = NotCalled

IdleRank ==
    /\ pred_column = NoColumn
    /\ greater_is_better = FALSE
    /\ rank_column = NotCalled

CallRankPredictions ==
    /\ rank_column = NotCalled
    /\ rank_column' = RankPredictions(pred_column, greater_is_better)
    /\ UNCHANGED <<pred_column, greater_is_better, exceptRank>>

-----------------------------------------------------------------------------
(* _get_highest_ranked_estimator *)

Targets == {"t1", "t2"}

\* A row of the ranking file.  Its estimator identifier is not drawn: row k of
\* the file names estimator k, so that the row a file name was derived from
\* can be told from the name.
RankingRow == [target : Targets, rank_mape : 1..MaxRankValue,
               rank_nrmse : 1..MaxRankValue, linear : BOOLEAN]

\* The index labels pandas gives the rows of a CSV it reads: 0, 1, 2, ...
Labels(rows) == [p \in 1..Len(rows) |-> p - 1]

RowAt(rows, label) == rows[label + 1]

\* ranking_df.loc[ranking_df[target] == target_variable]: the rows of the
\* target, each keeping the label it has in the file.
FilterTarget(rows, target) ==
    LET OfTarget(label) == RowAt(rows, label).target = target
    IN  SelectSeq(Labels(rows), OfTarget)

CombinedRank(row) == row.rank_mape + row.rank_nrmse

\* Series.idxmin(): the label of the first row holding the minimum.
IdxMin(rows, labels) ==
    LET least == SetMin({CombinedRank(RowAt(rows, l)) : l \in Range(labels)})
        first == SetMin({p \in 1..Len(labels) :
                            CombinedRank(RowAt(rows, labels[p])) = least})
    IN  labels[first]

\* frame[start:] with an integer start slices by position, whatever the
\* labels are: it drops the first `start` rows of the frame.
SliceFrom(labels, start) == SubSeq(labels, start + 1, Len(labels))

\* utils.get_estimator_file_name(estimator_type, estimator, target_variable):
\* the name is a function of the three; the model keeps them apart.
GetEstimatorFileName(estimator_type, estimator, target) ==
    <<estimator_type, estimator, target>>

Raised == [outcome |-> "raised", row |-> -1, file |-> <<>>]
Unresolved == [outcome |-> "none", row |-> -1, file |-> <<>>]

GetHighestRankedEstimator(file, target) ==
    IF ~file.exists THEN Raised
    ELSE LET ranking_df_var == FilterTarget(file.rows, target)
         IN  IF ranking_df_var = <<>> THEN Raised     \* idxmin of nothing
             ELSE LET best_row == SliceFrom(ranking_df_var,
                                            IdxMin(file.rows, ranking_df_var))
                  IN  IF best_row = <<>> THEN Raised  \* values[0] of nothing
                      ELSE LET row == RowAt(file.rows, best_row[1])
                               estimator_type ==
                                   IF row.linear THEN "linear" ELSE "nonlinear"
                           IN  [outcome |-> "returned", row |-> best_row[1],
                                file |-> GetEstimatorFileName(
                                    estimator_type, best_row[1], target)]

NoRankingFile == [exists |-> FALSE, rows |-> <<>>]

InitResolver ==
    /\ ranking_file \in {NoRankingFile} \cup
           [exists : {TRUE}, rows : SeqsUpTo(RankingRow, MaxRankRows)]
    /\ target_variable \in Targets
    /\ resolved = Unresolved

IdleResolver ==
    /\ ranking_file = NoRankingFile
    /\ target_variable = "t1"
    /\ resolved = Unresolved

CallGetHighestRankedEstimator ==
    /\ resolved = Unresolved
    /\ resolved' = GetHighestRankedEstimator(ranking_file, target_variable)
    /\ UNCHANGED <<ranking_file, target_variable, exceptResolver>>

-----------------------------------------------------------------------------
(* _create_input_space *)

VariableNames == {"b", "c"}
FixedNames == {"a", "b"}

\* The value lists a variable entry may carry: <<>>, <<1>>, <<1, 2>>, ...
ValueLists == {PyRange(1, n + 1) : n \in 0..MaxListLen}

\* The rows the historical data is drawn from (columns b and c).
DataRowPool == {[b |-> 1, c |-> 1], [b |-> 4, c |-> 2]}

\* original_data is None (present = FALSE) or a table; an empty table has no
\* rows.
NoData == [present |-> FALSE, rows |-> <<>>]

DataIsUsable(data) == data.present /\ data.rows # <<>>

DataColumn(data, var_name) == [i \in 1..Len(data.rows) |-> data.rows[i][var_name]]

\* {k: v for d in list for k, v in d.items()}: a dict keeps a key at the place
\* of its first insertion and the value of its last.
DictKeys(entries) ==
    LET First(p) == \A q \in 1..(p - 1) : entries[q].name # entries[p].name
        positions == SelectSeq([p \in 1..Len(entries) |-> p], First)
    IN  [k \in 1..Len(positions) |-> entries[positions[k]].name]

DictValue(entries, name) ==
    entries[SetMax({p \in 1..Len(entries) : entries[p].name = name})].value

\* The keys of the interpolation_values dict: the names of the list, once each.
InterpolationKeys(config, data) ==
    IF DataIsUsable(data)
    THEN DictKeys([p \in 1..Len(config.interpolation_values) |->
                     [name |-> config.interpolation_values[p], value |-> 0]])
    ELSE <<>>

\* zip(*lists) in the place of product: the lists walked side by side.
ProductAsZip(lists) ==
    IF lists = <<>> THEN <<>>
    ELSE [k \in 1..SetMin({Len(lists[p]) : p \in 1..Len(lists)}) |->
             [p \in 1..Len(lists) |-> lists[p][k]]]

\* itertools.product(*lists): the tuples in order, the last list varying
\* fastest; one empty tuple for no list.
RECURSIVE Product(_)
Product(lists) ==
    IF lists = <<>> THEN << <<>> >>
    ELSE LET h == Head(lists)
             rest == Product(Tail(lists))
         IN  [k \in 1..(Len(h) * Len(rest)) |->
                 <<h[((k - 1) \div Len(rest)) + 1]>>
                     \o rest[((k - 1) % Len(rest)) + 1]]

IndexOf(seq, x) == SetMin({p \in 1..Len(seq) : seq[p] = x})

InputRaised == [outcome |-> "raised", columns |-> <<>>, rows |-> <<>>]
InputNotBuilt == [outcome |-> "none", columns |-> <<>>, rows |-> <<>>]

CreateInputSpace(config, data) ==
    LET variable_keys == DictKeys(config.variable_values)
        interpolation_keys == InterpolationKeys(config, data)
        fixed_keys == DictKeys(config.fixed_values)
    IN  IF Range(variable_keys) \cap Range(interpolation_keys) # {}
        THEN InputRaised
        ELSE LET keys == variable_keys \o interpolation_keys
                 ValuesOf(p) ==
                     IF p <= Len(variable_keys)
                     THEN DictValue(config.variable_values, keys[p])
                     ELSE GetDataRangeMissingValues(DataColumn(data, keys[p]))
                 combinations == Product([p \in 1..Len(keys) |-> ValuesOf(p)])
                 NewFixed(name) == name \notin Range(keys)
                 columns == keys \o SelectSeq(fixed_keys, NewFixed)
                 Row(t) == [c \in Range(columns) |->
                               IF c \in Range(fixed_keys)
                               THEN DictValue(config.fixed_values, c)
                               ELSE t[IndexOf(keys, c)]]
             IN  [outcome |-> "returned", columns |-> columns,
                  rows |-> [k \in 1..Len(combinations) |-> Row(combinations[k])]]

VariableEntry == [name : VariableNames, value : ValueLists]
FixedEntry == [name : FixedNames, value : {1}]

\* A configuration without the optional key interpolation_values reads as one
\* with an empty list (input_config.get("interpolation_values", [])).
InputConfigs ==
    [fixed_values : SeqsUpTo(FixedEntry, MaxFixed),
     variable_values : SeqsUpTo(VariableEntry, MaxVariable),
     interpolation_values : SeqsUpTo(VariableNames, MaxInterp)]

OriginalDatas ==
    {NoData} \cup [present : {TRUE}, rows : SeqsUpTo(DataRowPool, MaxDataRows)]

NoConfig ==
    [fixed_values |-> <<>>, variable_values |-> <<>>, interpolation_values |-> <<>>]

InitInput ==
    /\ input_config \in InputConfigs
    /\ original_data \in OriginalDatas
    /\ input_space = InputNotBuilt

IdleInput ==
    /\ input_config = NoConfig
    /\ original_data = NoData
    /\ input_space = InputNotBuilt

CallCreateInputSpace ==
    /\ input_space = InputNotBuilt
    /\ input_space' = CreateInputSpace(input_config, original_data)
    /\ UNCHANGED <<input_config, original_data, exceptInput>>

-----------------------------------------------------------------------------
(* File names.  A name is a sequence of pieces, cut wherever one of the names
   below can begin or end inside another, so that glob's pattern match and
   Python's substring test are computed on the pieces. *)

PRED_ALL_PREDICTIONS_FILE == <<"all-", "predictions", ".csv">>
PRED_GROUND_TRUTH_FILE == <<"predictions-", "with-ground-truth", ".csv">>
PRED_INPUT_SPACE_FILE == <<"input-space", ".csv">>
PRED_ORIGINAL_TRUTH_FILE == <<"original-data", ".csv">>

\* f"predictions-{target_variable}.csv"
PredictionsFile(target) == <<"predictions-", target, ".csv">>

OutputPath == <<"out", "/">>

\* os.path.join(output_path, name)
PathOf(name) == OutputPath \o name

\* glob's predictions-*.csv, matched against the name of a file.
MatchesGlob(name) ==
    /\ Len(name) >= 2
    /\ name[1] = "predictions-"
    /\ name[Len(name)] = ".csv"

\* x in filename
Contains(filename, x) ==
    \E k \in 0..(Len(filename) - Len(x)) :
        SubSeq(filename, k + 1, k + Len(x)) = x

\* An ignore list that names the consolidated file only.
IgnoredOnlyConsolidated(filename) == Contains(filename, PRED_ALL_PREDICTIONS_FILE)

\* any(x in filename for x in ignore_files)
Ignored(filename) ==
    \E x \in {PRED_ALL_PREDICTIONS_FILE, PRED_GROUND_TRUTH_FILE} :
        Contains(filename, x)

\* The paths the merge reads: what glob finds, less what the loop skips.
JoinInputs(dir) ==
    {f.name : f \in {g \in dir : MatchesGlob(g.name) /\ ~Ignored(PathOf(g.name))}}

-----------------------------------------------------------------------------
(* Tables: [columns, rows], the rows a set of records over the columns. *)

IndexColumn == "Unnamed: 0"

\* f"rank_{target_column}"
RankColumn(target) == IF target = "t1" THEN "rank_t1" ELSE "rank_t2"

EmptyTable == [columns |-> {}, rows |-> {}]

WithColumn(row, c, v) ==
    [x \in (DOMAIN row) \cup {c} |-> IF x = c THEN v ELSE row[x]]

Restrict(row, cols) == [x \in cols |-> row[x]]

\* A data frame written with its index and read back: the index is a column.
WithIndex(columns, rows) ==
    [columns |-> Range(columns) \cup {IndexColumn},
     rows |-> {WithColumn(rows[k], IndexColumn, k - 1) : k \in 1..Len(rows)}]

\* The output of estimator.predict for a row of the input space.  The
\* estimator is not part of the repository; a fixed value stands for it.
EstimatorPredict(row) == 0

\* The table the loop writes for a target: the input space, the predictions
\* and their ranks.
PredictionsTable(space, target, greater) ==
    LET y_pred == [k \in 1..Len(space.rows) |-> EstimatorPredict(space.rows[k])]
        ranks == RankPredictions(y_pred, greater)
        Ranked(k) == WithColumn(WithColumn(space.rows[k], target, y_pred[k]),
                                RankColumn(target), ranks[k])
    IN  WithIndex(space.columns \o <<target, RankColumn(target)>>,
                  [k \in 1..Len(space.rows) |-> Ranked(k)])

\* pd.merge(x, y): the inner join on the columns the two have in common.
Merge(x, y) ==
    LET common == x.columns \cap y.columns
        pairs == {p \in x.rows \X y.rows :
                     Restrict(p[1], common) = Restrict(p[2], common)}
    IN  [columns |-> x.columns \cup y.columns,
         rows |-> {[c \in x.columns \cup y.columns |->
                       IF c \in x.columns THEN p[1][c] ELSE p[2][c]] :
                   p \in pairs}]

\* reduce(lambda x, y: pd.merge(x, y), dfs), for a non-empty set of tables.
RECURSIVE MergeAll(_)
MergeAll(tables) ==
    LET first == CHOOSE t \in tables : TRUE
    IN  IF tables = {first} THEN first
        ELSE Merge(first, MergeAll(tables \ {first}))

\* df.loc[:, ~df.columns.str.contains('^Unnamed')]
DropUnnamed(t) ==
    [columns |-> t.columns \ {IndexColumn},
     rows |-> {Restrict(r, t.columns \ {IndexColumn}) : r \in t.rows}]

DataColumns == {"b", "c"}

\* A row of the historical data and a row of the predictions as one row.
\* The two share the columns of `on` only: the model's data has no column
\* named as a target.
JoinedRow(r, q) ==
    [c \in (DOMAIN r) \cup (DOMAIN q) |-> IF c \in DOMAIN r THEN r[c] ELSE q[c]]

\* A left join in the place of the inner join: a row of the data without a
\* match is kept, its prediction columns empty (-1 stands for NaN).
ReconcileJoinLeft(data, predictions, on) ==
    {JoinedRow(r, [c \in predictions.columns |->
                      IF \E q \in predictions.rows : Restrict(q, on) = Restrict(r, on)
                      THEN (CHOOSE q \in predictions.rows :
                               Restrict(q, on) = Restrict(r, on))[c]
                      ELSE -1]) :
        r \in Range(data.rows)}

\* pd.merge(original_data, all_predictions_df, on=columns): the inner join,
\* a row for every row of the data and row of the predictions equal on the
\* columns.
ReconcileJoin(data, predictions, on) ==
    {JoinedRow(p[1], p[2]) :
        p \in {x \in Range(data.rows) \X predictions.rows :
                  Restrict(x[1], on) = Restrict(x[2], on)}}

TableOf(name, dir) == (CHOOSE f \in dir : f.name = name).table

\* utils.write_df_to_csv: the file is created or replaced.
WriteFile(dir, name, table) ==
    {f \in dir : f.name # name} \cup {[name |-> name, table |-> table]}

Names(dir) == {f.name : f \in dir}

-----------------------------------------------------------------------------
(* demo_predict: _create_input_space, then _run_predictions. *)

\* The entries a run's estimators list is drawn from.
EstimatorEntries ==
    {[target_variable |-> "t1", greater_is_better |-> FALSE, estimator_file |-> TRUE],
     [target_variable |-> "t2", greater_is_better |-> TRUE, estimator_file |-> FALSE]}

\* The feature-space configurations a run is drawn from: one variable; one
\* variable and one fixed value; one feature declared variable and interpolated.
RunInputConfigs ==
    {[fixed_values |-> <<>>,
      variable_values |-> <<[name |-> "b", value |-> <<1, 2>>]>>,
      interpolation_values |-> <<>>],
     [fixed_values |-> <<[name |-> "a", value |-> 1]>>,
      variable_values |-> <<[name |-> "b", value |-> <<1>>]>>,
      interpolation_values |-> <<>>],
     [fixed_values |-> <<>>,
      variable_values |-> <<[name |-> "b", value |-> <<1, 2>>]>>,
      interpolation_values |-> <<"b">>]}

\* The historical data of a run: None, empty, or one row.
RunOriginalDatas == {d \in OriginalDatas : Len(d.rows) <= 1}

NoDir == [exists |-> FALSE, files |-> {}]
PriorDir == [exists |-> TRUE, files |-> {"prior"}]

\* estimator_folder: the sibling directory for an archive, else the path.
EstimatorFolder == IF estimator_zip THEN "sibling" ELSE "estimator_path"

InitRunVars ==
    /\ pc = "idle"
    /\ raised_in = ""
    /\ runs = 0
    /\ estimators = <<>>
    /\ estimator_zip = FALSE
    /\ output_dir = {}
    /\ target_variables = <<>>
    /\ all_predictions_df = EmptyTable
    /\ joined = {}
    /\ written = <<>>
    /\ reads = <<>>
    /\ completed = 0

IdleRun == InitRunVars /\ sibling_dir = NoDir /\ sibling_before = NoDir

InitRun ==
    /\ InitRunVars
    /\ sibling_dir \in {NoDir, PriorDir}
    /\ sibling_before = sibling_dir
    /\ IdleInput

\* demo_predict is called: the configuration is read.
StartRun ==
    /\ pc \in {"idle", "done", "failed"}
    /\ runs < MaxRuns
    /\ runs' = runs + 1
    /\ input_config' \in RunInputConfigs
    /\ original_data' \in RunOriginalDatas
    /\ estimators' \in SeqsUpTo(EstimatorEntries, MaxTargets)
    /\ estimator_zip' \in BOOLEAN
    /\ input_space' = InputNotBuilt
    /\ target_variables' = <<>>
    /\ all_predictions_df' = EmptyTable
    /\ joined' = {}
    /\ written' = <<>>
    /\ reads' = <<>>
    /\ pc' = "input"
    /\ raised_in' = ""
    /\ sibling_before' = sibling_dir
    /\ UNCHANGED <<sibling_dir, output_dir, exceptRun, completed>>

\* demo_predict is called with output_path None: it raises ValueError before
\* it reads anything.
StartRunWithoutOutputPath ==
    /\ pc \in {"idle", "done", "failed"}
    /\ runs < MaxRuns
    /\ runs' = runs + 1
    /\ input_space' = InputNotBuilt
    /\ target_variables' = <<>>
    /\ all_predictions_df' = EmptyTable
    /\ joined' = {}
    /\ written' = <<>>
    /\ reads' = <<>>
    /\ pc' = "failed"
    /\ raised_in' = "demo_predict"
    /\ sibling_before' = sibling_dir
    /\ UNCHANGED <<input_config, original_data, estimators, estimator_zip,
                   sibling_dir, output_dir, exceptRun, completed>>

\* _create_input_space raises, or writes the input-space file.
BuildInputSpace ==
    /\ pc = "input"
    /\ input_space' = CreateInputSpace(input_config, original_data)
    /\ IF input_space'.outcome = "raised"
       THEN /\ pc' = "failed"
            /\ raised_in' = "_create_input_space"
            /\ UNCHANGED <<output_dir, written>>
       ELSE /\ output_dir' = WriteFile(output_dir, PRED_INPUT_SPACE_FILE,
                                       WithIndex(input_space'.columns, input_space'.rows))
            /\ written' = Append(written, PRED_INPUT_SPACE_FILE)
            /\ pc' = "unpack"
            /\ UNCHANGED raised_in
    /\ UNCHANGED <<input_config, original_data, runs, estimators, estimator_zip,
                   sibling_dir, target_variables, all_predictions_df, joined,
                   reads, exceptRun, completed, sibling_before>>

\* shutil.unpack_archive(estimator_path, estimator_folder) for an archive.
UnpackArchive ==
    /\ pc = "unpack"
    /\ sibling_dir' =
           IF estimator_zip
           THEN [exists |-> TRUE, files |-> sibling_dir.files \cup {"unpacked"}]
           ELSE sibling_dir
    /\ pc' = "loop"
    /\ UNCHANGED <<varsInput, raised_in, runs, estimators, estimator_zip, output_dir,
                   target_variables, all_predictions_df, joined, written, reads,
                   exceptRun, completed, sibling_before>>

\* Where the estimator of the entry is resolved and loaded.
ReadOf(entry) ==
    [target |-> entry.target_variable,
     folder |-> EstimatorFolder,
     unpacked |-> "unpacked" \in sibling_dir.files]

\* One pass of a loop that takes the entries from the last to the first.
PredictTargetLastFirst ==
    /\ pc = "loop"
    /\ Len(target_variables) < Len(estimators)
    /\ LET entry == estimators[Len(estimators) - Len(target_variables)]
           output_file_preds == PredictionsFile(entry.target_variable)
       IN  /\ target_variables' = Append(target_variables, entry.target_variable)
           /\ reads' = Append(reads, ReadOf(entry))
           /\ output_dir' = WriteFile(output_dir, output_file_preds,
                  PredictionsTable(input_space, entry.target_variable,
                                   entry.greater_is_better))
           /\ written' = Append(written, output_file_preds)
    /\ UNCHANGED <<varsInput, pc, raised_in, runs, estimators, estimator_zip, sibling_dir,
                   all_predictions_df, joined, exceptRun, completed, sibling_before>>

\* One pass of the loop: the estimator is resolved, loaded and run, the
\* predictions are ranked and written.
PredictTarget ==
    /\ pc = "loop"
    /\ Len(target_variables) < Len(estimators)
    /\ LET entry == estimators[Len(target_variables) + 1]
           output_file_preds == PredictionsFile(entry.target_variable)
       IN  /\ target_variables' = Append(target_variables, entry.target_variable)
           /\ reads' = Append(reads, ReadOf(entry))
           /\ output_dir' = WriteFile(output_dir, output_file_preds,
                  PredictionsTable(input_space, entry.target_variable,
                                   entry.greater_is_better))
           /\ written' = Append(written, output_file_preds)
    /\ UNCHANGED <<varsInput, pc, raised_in, runs, estimators, estimator_zip, sibling_dir,
                   all_predictions_df, joined, exceptRun, completed, sibling_before>>

\* One pass of a loop that catches what the estimator of the entry raises and
\* goes on to the next entry.
PredictTargetRaisesAndGoesOn ==
    /\ pc = "loop"
    /\ Len(target_variables) < Len(estimators)
    /\ LET entry == estimators[Len(target_variables) + 1]
       IN  /\ target_variables' = Append(target_variables, entry.target_variable)
           /\ reads' = Append(reads, ReadOf(entry))
    /\ raised_in' = "loop"
    /\ UNCHANGED <<varsInput, pc, runs, estimators, estimator_zip, sibling_dir,
                   output_dir, all_predictions_df, joined, written,
                   exceptRun, completed, sibling_before>>

\* One pass of the loop in which _get_highest_ranked_estimator,
\* utils.load_estimator or estimator.predict raises: nothing catches it.
PredictTargetRaises ==
    /\ pc = "loop"
    /\ Len(target_variables) < Len(estimators)
    /\ LET entry == estimators[Len(target_variables) + 1]
       IN  /\ target_variables' = Append(target_variables, entry.target_variable)
           /\ reads' = Append(reads, ReadOf(entry))
    /\ pc' = "failed"
    /\ raised_in' = "loop"
    /\ UNCHANGED <<varsInput, runs, estimators, estimator_zip, sibling_dir,
                   output_dir, all_predictions_df, joined, written,
                   exceptRun, completed, sibling_before>>

\* After the loop: glob, skip the ignored files, join, write the consolidated
\* table.  reduce of an empty list raises.
MergePredictions ==
    /\ pc = "loop"
    /\ Len(target_variables) = Len(estimators)
    /\ joined' = JoinInputs(output_dir)
    /\ IF joined' = {}
       THEN /\ pc' = "failed"
            /\ raised_in' = "merge"
            /\ UNCHANGED <<all_predictions_df, output_dir, written>>
       ELSE /\ all_predictions_df' =
                   DropUnnamed(MergeAll({TableOf(n, output_dir) : n \in joined'}))
            /\ output_dir' = WriteFile(output_dir, PRED_ALL_PREDICTIONS_FILE,
                                       all_predictions_df')
            /\ written' = Append(written, PRED_ALL_PREDICTIONS_FILE)
            /\ pc' = "reconcile"
            /\ UNCHANGED raised_in
    /\ UNCHANGED <<varsInput, runs, estimators, estimator_zip, sibling_dir,
                   target_variables, reads, exceptRun, completed, sibling_before>>

\* The comparison with the historical data.  pd.merge raises when a column of
\* `on` is missing on either side.
Reconcile ==
    /\ pc = "reconcile"
    /\ LET on == Range(input_space.columns)
           merged_df == ReconcileJoin(original_data, all_predictions_df, on)
       IN  IF ~DataIsUsable(original_data)
           THEN /\ pc' = "cleanup"
                /\ UNCHANGED <<output_dir, written, raised_in>>
           ELSE IF ~(on \subseteq DataColumns /\ on \subseteq all_predictions_df.columns)
           THEN /\ pc' = "failed"
                /\ raised_in' = "reconcile"
                /\ UNCHANGED <<output_dir, written>>
           ELSE IF merged_df = {}
           THEN /\ pc' = "cleanup"
                /\ UNCHANGED <<output_dir, written, raised_in>>
           ELSE /\ output_dir' =
                       WriteFile(WriteFile(output_dir, PRED_GROUND_TRUTH_FILE,
                                     [columns |-> DataColumns \cup all_predictions_df.columns,
                                      rows |-> merged_df]),
                                 PRED_ORIGINAL_TRUTH_FILE,
                                 [columns |-> DataColumns,
                                  rows |-> Range(original_data.rows)])
                /\ written' = written \o <<PRED_GROUND_TRUTH_FILE, PRED_ORIGINAL_TRUTH_FILE>>
                /\ pc' = "cleanup"
                /\ UNCHANGED raised_in
    /\ UNCHANGED <<varsInput, runs, estimators, estimator_zip, sibling_dir,
                   target_variables, all_predictions_df, joined, reads,
                   exceptRun, completed, sibling_before>>

\* The return of _run_predictions without the rmtree.
CleanupWithoutRmtree ==
    /\ pc = "cleanup"
    /\ pc' = "done"
    /\ completed' = completed + 1
    /\ UNCHANGED <<varsInput, raised_in, runs, estimators, estimator_zip, sibling_dir,
                   output_dir, target_variables, all_predictions_df, joined,
                   written, reads, exceptRun, sibling_before>>

\* shutil.rmtree(estimator_folder) for an archive; _run_predictions and then
\* demo_predict return.
Cleanup ==
    /\ pc = "cleanup"
    /\ sibling_dir' = IF estimator_zip THEN NoDir ELSE sibling_dir
    /\ pc' = "done"
    /\ completed' = completed + 1
    /\ UNCHANGED <<varsInput, raised_in, runs, estimators, estimator_zip, output_dir,
                   target_variables, all_predictions_df, joined, written, reads,
                   exceptRun, sibling_before>>

NextRun ==
    \/ StartRun
    \/ StartRunWithoutOutputPath
    \/ BuildInputSpace
    \/ UnpackArchive
    \/ PredictTarget
    \/ PredictTargetRaises
    \/ MergePredictions
    \/ Reconcile
    \/ Cleanup


-----------------------------------------------------------------------------
(* The UI: PredictUI.on_predict writes the configuration file and runs the
   core on it.  The form has one field of each kind set_input_fields knows
   (categorical, numeric, text) and a toggle per output field. *)

config_input_fields == <<"model", "batch", "note">>
config_output_fields == <<"t1", "t2">>

\* What the widgets can hold: a multiselect a list, a select_slider a pair
\* (low, high), a text_input a string, a toggle a boolean.
SessionStates ==
    [model : [kind : {"list"}, items : {<<>>, <<"x">>, <<"x", "y">>}],
     batch : {v \in [kind : {"tuple"}, low : 1..MaxSlider, high : 1..MaxSlider] :
                 v.low <= v.high},
     note : [kind : {"str"}, text : {"", "None", "v"}],
     t1 : BOOLEAN,
     t2 : BOOLEAN]

\* Python's truth value of a widget's value.
Truthy(v) ==
    CASE v.kind = "list" -> v.items # <<>>
      [] v.kind = "tuple" -> TRUE
      [] v.kind = "str" -> v.text # ""

IsNoneText(v) == v.kind = "str" /\ v.text = "None"

Filled(v) == Truthy(v) /\ ~IsNoneText(v)

\* The entry get_prediction_configuration appends for a filled field, and the
\* list it appends it to.
IsVariable(v) ==
    CASE v.kind = "list" -> Len(v.items) > 1
      [] v.kind = "tuple" -> v.low # v.high
      [] v.kind = "str" -> FALSE

EntryValue(v) ==
    CASE v.kind = "list" -> IF Len(v.items) > 1 THEN v.items ELSE v.items[1]
      [] v.kind = "tuple" -> IF v.low # v.high THEN PyRange(v.low, v.high + 1)
                                               ELSE v.low
      [] v.kind = "str" -> v.text

GetPredictionConfiguration(state) ==
    LET IsFilled(f) == Filled(state[f])
        Variable(f) == IsVariable(state[f])
        Fixed(f) == ~IsVariable(state[f])
        Entry(f) == [name |-> f, value |-> EntryValue(state[f])]
        Entries(fields) == [k \in 1..Len(fields) |-> Entry(fields[k])]
        Selected(f) == state[f] = TRUE
    IN  IF \E k \in 1..Len(config_input_fields) : ~IsFilled(config_input_fields[k])
        THEN [success |-> FALSE, fixed_input_values |-> <<>>,
              variable_input_values |-> <<>>, output_values |-> <<>>]
        ELSE [success |-> TRUE,
              fixed_input_values |-> Entries(SelectSeq(config_input_fields, Fixed)),
              variable_input_values |-> Entries(SelectSeq(config_input_fields, Variable)),
              output_values |-> SelectSeq(config_output_fields, Selected)]

\* The keys of the mapping generate_prediction_config_file stores under
\* "estimators", in the order it writes them.
EstimatorKeys == <<"target_variable", "estimator_file", "greater_is_better">>

\* The configuration generate_prediction_config_file dumps, for a non-empty
\* output_values: "estimators" is one mapping, made of output_values[0].
\* estimator_file and greater_is_better come from the UI's own settings.
PredictionConfig(fixed_input_values, variable_input_values, output_values) ==
    [fixed_values |-> [kind |-> "list", items |-> fixed_input_values],
     variable_values |-> [kind |-> "list", items |-> variable_input_values],
     estimators |-> [kind |-> "mapping",
                     keys |-> EstimatorKeys,
                     items |-> <<[target_variable |-> output_values[1],
                                  estimator_file |-> "configured",
                                  greater_is_better |-> FALSE]>>]]

NoFile == [written |-> FALSE, content |-> <<>>]

\* for entry in estimators_config["estimators"]: entry["target_variable"],
\* entry["greater_is_better"].  A list yields its items; a mapping yields its
\* keys, which are strings, and a string has no item "target_variable".
CoreReadsEstimators(content) ==
    IF content.estimators.kind = "list"
    THEN [outcome |-> "read",
          target_variables |->
              [k \in 1..Len(content.estimators.items) |->
                  content.estimators.items[k].target_variable]]
    ELSE IF content.estimators.keys = <<>>
    THEN [outcome |-> "read", target_variables |-> <<>>]
    ELSE [outcome |-> "raised", target_variables |-> <<>>]

CoreNotRun == [outcome |-> "none", target_variables |-> <<>>]

InitUIVars ==
    /\ ui_result = "none"
    /\ config_file = NoFile
    /\ core_result = CoreNotRun

IdleUI ==
    /\ session_state = [empty |-> TRUE]
    /\ InitUIVars

InitUI ==
    /\ session_state \in SessionStates
    /\ InitUIVars

\* The Predict button: get_prediction_configuration, then
\* generate_prediction_config_file, then the core as a command.
OnPredict ==
    /\ ui_result = "none"
    /\ LET got == GetPredictionConfiguration(session_state)
       IN  IF ~got.success
           THEN /\ ui_result' = "not filled"
                /\ UNCHANGED <<config_file, core_result>>
           ELSE IF got.output_values = <<>>
           THEN /\ ui_result' = "IndexError"      \* output_values[0]
                /\ UNCHANGED <<config_file, core_result>>
           ELSE /\ config_file' =
                       [written |-> TRUE,
                        content |-> PredictionConfig(got.fixed_input_values,
                                                     got.variable_input_values,
                                                     got.output_values)]
                /\ core_result' = CoreReadsEstimators(config_file'.content)
                /\ ui_result' = "command executed"
    /\ UNCHANGED <<session_state, exceptUI>>

-----------------------------------------------------------------------------
(* The specifications. *)

InitSpecResolver == InitResolver /\ IdleInterp /\ IdleRank /\ IdleInput /\ IdleRun /\ IdleUI

SpecResolver == InitSpecResolver /\ [][CallGetHighestRankedEstimator]_vars

InitSpecInterp == IdleResolver /\ InitInterp /\ IdleRank /\ IdleInput /\ IdleRun /\ IdleUI

SpecInterp == InitSpecInterp /\ [][CallGetDataRangeMissingValues]_vars

InitSpecRank == IdleResolver /\ IdleInterp /\ InitRank /\ IdleInput /\ IdleRun /\ IdleUI

SpecRank == InitSpecRank /\ [][CallRankPredictions]_vars

InitSpecInput == IdleResolver /\ IdleInterp /\ IdleRank /\ InitInput /\ IdleRun /\ IdleUI

SpecInput == InitSpecInput /\ [][CallCreateInputSpace]_vars

InitSpecRun == IdleResolver /\ IdleInterp /\ IdleRank /\ InitRun /\ IdleUI

InitSpecUI == IdleResolver /\ IdleInterp /\ IdleRank /\ IdleInput /\ IdleRun /\ InitUI

SpecUI == InitSpecUI /\ [][OnPredict]_vars

SpecRun == InitSpecRun /\ [][NextRun]_vars

-----------------------------------------------------------------------------
(* The claims.  Each formula is stated on the variables of the specification
   it is checked under. *)

-----------------------------------------------------------------------------
(* _get_highest_ranked_estimator, under SpecResolver *)

TargetLabels == Range(FilterTarget(ranking_file.rows, target_variable))

UsesMinimalRow ==
    /\ resolved.outcome = "returned"
    /\ resolved.row \in TargetLabels
    /\ \A l \in TargetLabels :
           CombinedRank(RowAt(ranking_file.rows, resolved.row))
               <= CombinedRank(RowAt(ranking_file.rows, l))

\* The rows of the target are the first rows of the file.
TargetRowsFirst ==
    \A p \in 1..Len(ranking_file.rows) :
        ranking_file.rows[p].target = target_variable
            => \A q \in 1..p : ranking_file.rows[q].target = target_variable

\* C1.  The row the estimator file name is derived from is a row of the
\* requested target whose combined rank (MAPE rank + normalized-RMSE rank) is
\* least among the rows of that target, for every ranking file and every
\* target that has a row in it, wherever those rows sit in the file.
C1_MinimalRowSelected ==
    (resolved # Unresolved /\ ranking_file.exists /\ TargetLabels # {})
        => UsesMinimalRow

\* C1 where it holds: with the rows of the target first in the file.
C1_MinimalRowWhenTargetFirst ==
    (resolved # Unresolved /\ ranking_file.exists /\ TargetLabels # {}
        /\ TargetRowsFirst) => UsesMinimalRow

\* C1's case: a file name was derived from a row of the target that is not a
\* minimal one, rows of another target preceding it.
C1_Witness ==
    /\ resolved.outcome = "returned"
    /\ resolved.row \in TargetLabels
    /\ ~TargetRowsFirst
    /\ ~UsesMinimalRow

-----------------------------------------------------------------------------
(* _create_input_space, under SpecInput *)

DeclaredInBoth ==
    {input_config.variable_values[p].name :
        p \in 1..Len(input_config.variable_values)}
        \cap Range(input_config.interpolation_values)

\* C2.  Declaring the same feature name in both variable_values and
\* interpolation_values always raises a configuration error, whatever the
\* historical data is: present, empty or absent.
C2_DuplicateAlwaysRaises ==
    (input_space # InputNotBuilt /\ DeclaredInBoth # {})
        => input_space.outcome = "raised"

\* C2 as the code has it: the duplicate raises when the historical data is
\* present and not empty, and only then.
C2_DuplicateRaisesIffDataUsable ==
    (input_space # InputNotBuilt /\ DeclaredInBoth # {})
        => (input_space.outcome = "raised" <=> DataIsUsable(original_data))

\* C2's case: a feature declared in both, and a table returned for it.
C2_Witness ==
    /\ input_space.outcome = "returned"
    /\ DeclaredInBoth # {}
    /\ original_data.present

-----------------------------------------------------------------------------
(* _rank_predictions, under SpecRank *)

IsBest(i) ==
    \A j \in 1..Len(pred_column) :
        IF greater_is_better THEN pred_column[j] <= pred_column[i]
                             ELSE pred_column[j] >= pred_column[i]

BestRows == {i \in 1..Len(pred_column) : IsBest(i)}

\* C3.  With greater_is_better false the rows with the smallest target value
\* receive rank 1, with greater_is_better true the rows with the largest, also
\* when several rows tie for that value.  (Rank 1 is 2 in twice-the-rank.)
C3_BestRowsRankOne ==
    rank_column # NotCalled => \A i \in BestRows : rank_column[i] = 2

\* C3 as amended: the k rows that hold the best value each receive the average
\* of the ranks 1..k, (k + 1) / 2, which is rank 1 exactly when k = 1, and
\* every other row ranks after them.
C3_BestRowsAverageRank ==
    rank_column # NotCalled =>
        /\ \A i \in BestRows : rank_column[i] = Cardinality(BestRows) + 1
        /\ \A i \in (1..Len(pred_column)) \ BestRows :
               rank_column[i] > Cardinality(BestRows) + 1

\* C3's case: greater is better, the largest value is in the last of three
\* rows and has rank 1, and two rows tie below it.
C3_Witness ==
    /\ rank_column # NotCalled
    /\ greater_is_better
    /\ Len(pred_column) = 3
    /\ BestRows = {3}
    /\ rank_column[3] = 2
    /\ pred_column[1] = pred_column[2]

-----------------------------------------------------------------------------
(* _run_predictions, under SpecRun *)

\* C4.  In every run, a rerun into a directory that holds the consolidated
\* and ground-truth files of an earlier run included, no file with the
\* consolidated-output or the ground-truth-output name is among the tables
\* joined into the consolidated table.
C4_OutputsNotJoined ==
    /\ PRED_ALL_PREDICTIONS_FILE \notin joined
    /\ PRED_GROUND_TRUTH_FILE \notin joined

\* C4's case: a rerun has merged with both files of the earlier run in the
\* directory.
C4_Witness ==
    /\ runs = 2
    /\ pc = "reconcile"
    /\ joined # {}
    /\ {PRED_ALL_PREDICTIONS_FILE, PRED_GROUND_TRUTH_FILE} \subseteq Names(output_dir)
    /\ PRED_GROUND_TRUTH_FILE \notin Range(written)

\* C5.  With an archive as estimator source, the archive is extracted to the
\* sibling directory before the first estimator is resolved or loaded, every
\* target reads its estimator from that directory, and the directory is
\* removed only after all targets are processed: it is gone when a run that
\* completes returns.
C5_ArchiveLifecycle ==
    estimator_zip =>
        /\ \A k \in 1..Len(reads) :
               reads[k].folder = "sibling" /\ reads[k].unpacked
        /\ pc \in {"loop", "reconcile", "cleanup"} =>
               sibling_dir.exists /\ "unpacked" \in sibling_dir.files
        /\ pc = "done" => ~sibling_dir.exists

\* C5's case: a run with an archive and two targets has completed.
C5_Witness ==
    /\ estimator_zip
    /\ pc = "done"
    /\ Len(reads) = 2
    /\ ~sibling_dir.exists

\* C6.  With an archive as estimator source, the extracted directory is
\* deleted at the end of the run whether the run stopped normally or by an
\* error partway through the loop over the targets: it does not exist once
\* the run has stopped.
C6_ExtractedDirGoneOnceStopped ==
    (estimator_zip /\ (pc = "done" \/ (pc = "failed" /\ raised_in = "loop")))
        => "unpacked" \notin sibling_dir.files

\* C6's case: a run with an archive has stopped by an error in the loop, at
\* its second target.
C6_Witness ==
    /\ estimator_zip
    /\ pc = "failed"
    /\ raised_in = "loop"
    /\ Len(target_variables) = 2

-----------------------------------------------------------------------------
(* _create_input_space, under SpecInput *)

RECURSIVE ProductOfLengths(_)
ProductOfLengths(lists) ==
    IF lists = <<>> THEN 1 ELSE Len(Head(lists)) * ProductOfLengths(Tail(lists))

\* The computed interpolation lists, one per interpolated feature.
ComputedInterpolationLists ==
    LET keys == InterpolationKeys(input_config, original_data)
    IN  [p \in 1..Len(keys) |->
            GetDataRangeMissingValues(DataColumn(original_data, keys[p]))]

\* Every list of variable_values.
AllVariableLists ==
    [p \in 1..Len(input_config.variable_values) |->
        input_config.variable_values[p].value]

\* One list per distinct variable feature: the last one configured for it.
LastVariableLists ==
    LET keys == DictKeys(input_config.variable_values)
    IN  [p \in 1..Len(keys) |-> DictValue(input_config.variable_values, keys[p])]

\* C7.  For every configuration that does not raise, the number of rows of the
\* input-space table is the product of the lengths of all variable value
\* lists and all computed interpolation value lists (1 when there are none, 0
\* when one is empty), whatever the number of fixed values.
C7_RowsAreProductOfAllLists ==
    input_space.outcome = "returned" =>
        Len(input_space.rows) =
            ProductOfLengths(AllVariableLists)
                * ProductOfLengths(ComputedInterpolationLists)

\* C7 as amended: the product is over the lists of the flattened variable
\* mapping, one per distinct feature name, and the computed interpolation
\* lists.
C7_RowsAreProductOfFlattenedLists ==
    input_space.outcome = "returned" =>
        Len(input_space.rows) =
            ProductOfLengths(LastVariableLists)
                * ProductOfLengths(ComputedInterpolationLists)

\* C7's case: a variable list of two values, a computed interpolation list of
\* two values and a fixed value make a table of four rows.
C7_Witness ==
    /\ input_space.outcome = "returned"
    /\ Len(input_space.rows) = 4
    /\ Len(LastVariableLists) = 1
    /\ Len(ComputedInterpolationLists) = 1
    /\ input_config.fixed_values # <<>>

-----------------------------------------------------------------------------
(* _get_data_range_missing_values, under SpecInterp *)

\* C8.  For every non-empty historical integer column the interpolation values
\* are exactly the integers strictly between the column's minimum and maximum
\* that do not occur in it, each once and in increasing order; there are none
\* when max - min <= 1.
C8_ExactlyTheGaps ==
    missing_values # NotCalled =>
        LET lo == SetMin(Range(hist_column))
            hi == SetMax(Range(hist_column))
        IN  /\ \A k \in 1..(Len(missing_values) - 1) :
                   missing_values[k] < missing_values[k + 1]
            /\ Range(missing_values) =
                   {v \in 0..MaxValue : lo < v /\ v < hi /\ v \notin Range(hist_column)}
            /\ (hi - lo <= 1 => missing_values = <<>>)

\* C8's case: a column of three values with two gaps on either side of the
\* middle one.
C8_Witness ==
    /\ missing_values # NotCalled
    /\ Len(missing_values) = 2
    /\ Len(hist_column) = 3
    /\ missing_values[2] - missing_values[1] = 2

-----------------------------------------------------------------------------
(* _run_predictions, under SpecRun *)

HasMatchingRow ==
    \E r \in Range(original_data.rows) :
        \E q \in all_predictions_df.rows :
            \A c \in Range(input_space.columns) : q[c] = r[c]

\* C9.  In a run that completes, the ground-truth file and the copy of the
\* historical data are both written if and only if the historical data is
\* present, not empty, and has a row equal on the input-space columns to a row
\* of the consolidated predictions; with the data absent or empty the run goes
\* through the consolidated file (no error after it) and writes neither.
C9_GroundTruthIffJoinNonEmpty ==
    /\ pc = "done" =>
           /\ PRED_ALL_PREDICTIONS_FILE \in Range(written)
           /\ PRED_GROUND_TRUTH_FILE \in Range(written)
                  <=> PRED_ORIGINAL_TRUTH_FILE \in Range(written)
           /\ PRED_GROUND_TRUTH_FILE \in Range(written)
                  <=> (original_data.present /\ original_data.rows # <<>>
                          /\ HasMatchingRow)
    /\ (pc = "failed" /\ raised_in = "reconcile")
           => (original_data.present /\ original_data.rows # <<>>)

\* C9's case: a run with historical data has completed and has written both.
C9_Witness ==
    /\ pc = "done"
    /\ PRED_GROUND_TRUTH_FILE \in Range(written)
    /\ PRED_ORIGINAL_TRUTH_FILE \in Range(written)
    /\ original_data.rows # <<>>

\* The prediction files of the first n entries of the configuration, in the
\* order of the entries.
PredictionFilesOf(n) ==
    [k \in 1..n |-> PredictionsFile(estimators[k].target_variable)]

\* The files of a run that writes them all, in the order of the stages.
StagesInOrder ==
    <<PRED_INPUT_SPACE_FILE>> \o PredictionFilesOf(Len(estimators))
        \o <<PRED_ALL_PREDICTIONS_FILE, PRED_GROUND_TRUTH_FILE, PRED_ORIGINAL_TRUTH_FILE>>

IsPrefix(s, t) == Len(s) <= Len(t) /\ SubSeq(t, 1, Len(s)) = s

\* C11.  Within one run the files are written in the order of the stages, no
\* stage revisited: the input-space file, then one predictions-<target>.csv
\* per estimator entry in the order of the entries in the configuration, then
\* the consolidated file, then (when written) the ground-truth file followed
\* by the copy of the historical data; at every moment what has been written
\* is a beginning of that sequence, and a run that returns has written it all
\* or all but the last two.
C11_WrittenInStageOrder ==
    /\ IsPrefix(written, StagesInOrder)
    /\ pc = "done" => Len(written) \in {Len(estimators) + 2, Len(estimators) + 4}

\* C11's case: a run over two different targets, the second configured first,
\* has returned with all six files written.
C11_Witness ==
    /\ pc = "done"
    /\ Len(written) = 6
    /\ Len(estimators) = 2
    /\ estimators[1].target_variable = "t2"
    /\ estimators[2].target_variable = "t1"

\* C12.  When resolving, loading or predicting with the estimator of the k-th
\* configured target raises, the run stops there: it has written the
\* prediction files of the entries 1..k-1 after the input-space file and
\* nothing else, so no prediction file for the k-th or a later entry, no
\* consolidated file and no ground-truth file.  (target_variables holds the
\* k targets the loop has reached.)
C12_RunAbortsAtFailingTarget ==
    raised_in = "loop" =>
        /\ pc = "failed"
        /\ written = <<PRED_INPUT_SPACE_FILE>>
                         \o PredictionFilesOf(Len(target_variables) - 1)
        /\ PRED_ALL_PREDICTIONS_FILE \notin Range(written)
        /\ PRED_GROUND_TRUTH_FILE \notin Range(written)
        /\ \A k \in Len(target_variables)..Len(estimators) :
               (\A j \in 1..(Len(target_variables) - 1) :
                    estimators[j].target_variable # estimators[k].target_variable)
                   => PredictionsFile(estimators[k].target_variable) \notin Range(written)

\* C12's case: the estimator of the second of two different targets raised,
\* the prediction file of the first written.
C12_Witness ==
    /\ raised_in = "loop"
    /\ Len(estimators) = 2
    /\ Len(target_variables) = 2
    /\ estimators[1].target_variable # estimators[2].target_variable
    /\ written = <<PRED_INPUT_SPACE_FILE, PredictionsFile(estimators[1].target_variable)>>

\* The target and rank columns of a table.
TargetColumnsOf(table) ==
    table.columns \cap (Targets \cup {RankColumn(t) : t \in Targets})

\* The consolidated table of the run is built from the prediction files of
\* the targets of its own configuration, and from no other file.
BuiltFromThisRun ==
    /\ joined = {PredictionsFile(t) : t \in Range(target_variables)}
    /\ TargetColumnsOf(all_predictions_df) =
           Range(target_variables) \cup {RankColumn(t) : t \in Range(target_variables)}

\* C13.  After any sequence of completed runs into the same output directory,
\* the consolidated table the last run wrote is built only from the
\* prediction files this last run wrote: its target and rank columns are
\* those of the targets of the last run's configuration, and a
\* predictions-<target>.csv an earlier run left for another target is not
\* among the files joined.
C13_ConsolidatedFromLastRunOnly ==
    (pc = "done" /\ completed = runs) => BuiltFromThisRun

\* C13 where it holds: the first run into an empty output directory.
C13_ConsolidatedFromFirstRunOnly ==
    (pc = "done" /\ runs = 1) => BuiltFromThisRun

\* C13's case: two runs have completed, the first for t2 and the second for
\* t1 only, and the consolidated table of the second has the columns of t2.
C13_Witness ==
    /\ pc = "done"
    /\ runs = 2
    /\ completed = 2
    /\ target_variables = <<"t1">>
    /\ PredictionsFile("t2") \in joined
    /\ {"t2", RankColumn("t2")} \subseteq all_predictions_df.columns
    /\ TableOf(PRED_ALL_PREDICTIONS_FILE, output_dir) = all_predictions_df

\* C14.  A run with an archive as estimator source leaves the file system
\* outside the output directory as it found it: a directory that was at the
\* sibling path before the run is still there, with the contents it had,
\* when a run that completes has returned; the run removes only what it
\* created.
C14_SiblingDirKept ==
    (pc = "done" /\ estimator_zip /\ sibling_before.exists)
        => (sibling_dir.exists /\ sibling_before.files \subseteq sibling_dir.files)

\* C14 where it holds: with no directory at the sibling path before the run,
\* the path is as before once the run has returned.
C14_SiblingPathAsBeforeWhenAbsent ==
    (pc = "done" /\ estimator_zip /\ ~sibling_before.exists) => sibling_dir = sibling_before

\* C14's case: a run with an archive found a directory with a file in it at
\* the sibling path, has completed, and the directory is gone.
C14_Witness ==
    /\ pc = "done"
    /\ estimator_zip
    /\ sibling_before = PriorDir
    /\ ~sibling_dir.exists

-----------------------------------------------------------------------------
(* PredictUI.on_predict, under SpecUI *)

SelectedOutputs ==
    {config_output_fields[k] : k \in {j \in 1..Len(config_output_fields) :
                                         session_state[config_output_fields[j]] = TRUE}}

\* C10.  Every configuration file generate_prediction_config_file writes from
\* a successful get_prediction_configuration has the format the core reads:
\* fixed_values and variable_values lists of single-key mappings, estimators a
\* list of per-target entries carrying target_variable and greater_is_better,
\* so that the loop of _run_predictions iterates it and reads one entry per
\* selected output field.
C10_FileHasCoreFormat ==
    config_file.written =>
        /\ config_file.content.fixed_values.kind = "list"
        /\ config_file.content.variable_values.kind = "list"
        /\ config_file.content.estimators.kind = "list"
        /\ core_result.outcome = "read"
        /\ Range(core_result.target_variables) = SelectedOutputs

\* C10, the part the file does have: the two lists of input values.
C10_InputValuesHaveCoreFormat ==
    config_file.written =>
        /\ config_file.content.fixed_values.kind = "list"
        /\ config_file.content.variable_values.kind = "list"

\* C10's case: a file written with both output fields selected, on which the
\* loop of the core raised.
C10_Witness ==
    /\ config_file.written
    /\ session_state.t1 /\ session_state.t2
    /\ core_result.outcome = "raised"

====
